---- MODULE Spec2Model ----
(***************************************************************************)
(* Local state of the Rick and Morty action-figure shop: the Apollo        *)
(* in-memory cache holding the Character records and the singleton         *)
(* ShoppingCart, and the local resolvers that read and write it.           *)
(***************************************************************************)
EXTENDS Integers, FiniteSets, Sequences, TLC

VARIABLES chars, cart, last, pre, last2, pre2, scen, act, turn, draining

vars == <<chars, cart, last, pre, last2, pre2, scen, act, turn, draining>>

\* Largest chosenQuantity the model lets a character reach.
MaxQty == 2

\* Identifiers of the characters the remote API serves.
CharIds == {1, 2, 3}

\* Largest numActionFigures the model lets the cart reach; without re-fetches
\* the cart never gets there before a character reaches MaxQty.
MaxFigures == Cardinality(CharIds) * MaxQty

\* Largest totalPrice the model lets the cart reach, likewise.
MaxPrice == 10 * MaxFigures

\* The characters of the runs that fetch a character more than once.
RefetchIds == {1, 3}

\* The resolver invocations that can be in progress in the step-by-step runs.
Callers == {1, 2}

\* The characters of the step-by-step runs.
StepIds == {1, 3}

\* Identifiers a caller may pass; 0 is an identifier no character has.
ArgIds == CharIds \cup {0}

\* The characters of the runs that end by decreasing only.
DrainIds == {1, 3}

\* name field of the remote Character with the given id.
NameOf(id) ==
  CASE id = 1 -> "Rick Sanchez"
    [] id = 2 -> "Morty Smith"
    [] OTHER  -> "Summer Smith"

\* species field of the remote Character with the given id.
SpeciesOf(id) == "Human"

\* What readFragment / readQuery give for a record that is null or missing.
Null == [kind |-> "null"]

\* The shoppingCart field of the root query was never written.
Undefined == [kind |-> "undefined"]

\* Marks a call that ended in an exception instead of a value.
Throw == [kind |-> "throw"]

\* Variant: the case of "Morty Smith" is missing.
setUnitPrice_NoMorty(name) ==
  CASE name = "Rick Sanchez" -> 10
    [] OTHER                 -> 5

\* set-unit-price.resolver.ts
setUnitPrice(name) ==
  CASE name = "Rick Sanchez" -> 10
    [] name = "Morty Smith"  -> 10
    [] OTHER                 -> 5

\* Character.chosenQuantity: () => 0
chosenQuantityDefault == 0

\* The cart record initLocalCache writes.
initLocalCache ==
  [kind |-> "ShoppingCart", id |-> "ShoppingCart:1",
   totalPrice |-> 0, numActionFigures |-> 0]

\* The fields the characterData fragment selects from a stored Character.
characterData(rec) ==
  [kind |-> rec.kind, id |-> rec.id, name |-> rec.name,
   unitPrice |-> rec.unitPrice, chosenQuantity |-> rec.chosenQuantity]

\* cache.readFragment(characterData) by cache key: the selected fields of
\* the stored record, or null when no record has that key.
readFragment(chs, id) ==
  IF id \in DOMAIN chs THEN characterData(chs[id]) ELSE Null

\* Variant: data replaces the stored record, fields it does not select are
\* lost.
writeFragment_Replace(chs, id, data) == [chs EXCEPT ![id] = data]

\* cache.writeFragment(characterData): the fields of data replace those of
\* the stored record, the other stored fields stay.
writeFragment(chs, id, data) ==
  [chs EXCEPT ![id] =
     [f \in DOMAIN chs[id] |->
        IF f \in DOMAIN data THEN data[f] ELSE chs[id][f]]]

\* cache.readQuery(GetShoppingCart): throws when shoppingCart is undefined,
\* gives null when it was written as null.
readQuery(crt) == IF crt = Undefined THEN Throw ELSE crt

getCharacterFromCache(chs, id) == readFragment(chs, id)

\* Variant: the cart is read with client.query, which gives null instead of
\* throwing when shoppingCart is undefined.
getShoppingCart_NoThrow(crt) == IF crt = Undefined THEN Null ELSE crt

\* readQuery(...)?.shoppingCart
getShoppingCart(crt) == readQuery(crt)

\* The call of updateShoppingCart ends in the exception of readQuery.
cartReadThrows(crt) == getShoppingCart(crt) = Throw

(***************************************************************************)
(* increase-chosen-quantity.resolver.ts                                    *)
(***************************************************************************)
\* Variant: the character is written back without the increment.
incUpdateCharacter_NoIncrement(chs, character) ==
  writeFragment(chs, character.id, character)

\* Variant: the quantity saturates at 1.
incUpdateCharacter_Saturating(chs, character) ==
  LET q1 == character.chosenQuantity + 1
      quantity == IF q1 > 1 THEN 1 ELSE q1
  IN writeFragment(chs, character.id,
        [character EXCEPT !.chosenQuantity = quantity])

incUpdateCharacter(chs, character) ==
  writeFragment(chs, character.id,
     [character EXCEPT !.chosenQuantity = character.chosenQuantity + 1])

incUpdateShoppingCart(crt, character) ==
  LET shoppingCart == getShoppingCart(crt) IN
  IF shoppingCart = Null \/ shoppingCart = Throw
  THEN crt
  ELSE [shoppingCart EXCEPT
          !.numActionFigures = shoppingCart.numActionFigures + 1,
          !.totalPrice = shoppingCart.totalPrice + character.unitPrice]

\* Variant: the cart is looked up before the character is written, and a
\* null cart ends the call with nothing written.
increaseChosenQuantity_CartFirst(chs, crt, id) ==
  LET character == getCharacterFromCache(chs, id) IN
  IF character = Null \/ getShoppingCart(crt) = Null
  THEN [chars |-> chs, cart |-> crt, ret |-> FALSE, threw |-> FALSE]
  ELSE [chars |-> incUpdateCharacter(chs, character),
        cart  |-> incUpdateShoppingCart(crt, character),
        ret   |-> ~cartReadThrows(crt),   \* no value when threw
        threw |-> cartReadThrows(crt)]

increaseChosenQuantity(chs, crt, id) ==
  LET character == getCharacterFromCache(chs, id) IN
  IF character = Null
  THEN [chars |-> chs, cart |-> crt, ret |-> FALSE, threw |-> FALSE]
  ELSE [chars |-> incUpdateCharacter(chs, character),
        cart  |-> incUpdateShoppingCart(crt, character),
        ret   |-> ~cartReadThrows(crt),   \* no value when threw
        threw |-> cartReadThrows(crt)]

(***************************************************************************)
(* decrease-chosen-quantity.resolver.ts                                    *)
(***************************************************************************)
\* Variant: no clamp on the character's quantity.
decUpdateCharacter_NoClamp(chs, character) ==
  writeFragment(chs, character.id,
     [character EXCEPT !.chosenQuantity = character.chosenQuantity - 1])

\* Variant: the clamp compares against -1 instead of 0.
decUpdateCharacter_OffByOne(chs, character) ==
  LET q0 == character.chosenQuantity - 1
      quantity == IF q0 < -1 THEN 0 ELSE q0
  IN writeFragment(chs, character.id,
        [character EXCEPT !.chosenQuantity = quantity])

decUpdateCharacter(chs, character) ==
  LET q0 == character.chosenQuantity - 1
      quantity == IF q0 < 0 THEN 0 ELSE q0
  IN writeFragment(chs, character.id,
        [character EXCEPT !.chosenQuantity = quantity])

\* Variant: no clamp on the cart's totals.
decUpdateShoppingCart_NoClamp(crt, character) ==
  LET shoppingCart == getShoppingCart(crt) IN
  IF shoppingCart = Null \/ shoppingCart = Throw
  THEN crt
  ELSE [shoppingCart EXCEPT
          !.numActionFigures = shoppingCart.numActionFigures - 1,
          !.totalPrice = shoppingCart.totalPrice - character.unitPrice]

\* Variant: a clamped count also zeroes the price.
decUpdateShoppingCart_CoupledClamp(crt, character) ==
  LET shoppingCart == getShoppingCart(crt) IN
  IF shoppingCart = Null \/ shoppingCart = Throw
  THEN crt
  ELSE LET q0 == shoppingCart.numActionFigures - 1
           p0 == shoppingCart.totalPrice - character.unitPrice
           price == IF p0 < 0 \/ q0 < 0 THEN 0 ELSE p0
           quantity == IF q0 < 0 THEN 0 ELSE q0
       IN [shoppingCart EXCEPT
             !.numActionFigures = quantity,
             !.totalPrice = price]

\* Variant: the cart write lowers numActionFigures only.
decUpdateShoppingCart_NoPrice(crt, character) ==
  LET shoppingCart == getShoppingCart(crt) IN
  IF shoppingCart = Null \/ shoppingCart = Throw
  THEN crt
  ELSE LET q0 == shoppingCart.numActionFigures - 1
           quantity == IF q0 < 0 THEN 0 ELSE q0
       IN [shoppingCart EXCEPT !.numActionFigures = quantity]

\* Variant: a cart that becomes empty is written as null.
decUpdateShoppingCart_DropsEmpty(crt, character) ==
  LET shoppingCart == getShoppingCart(crt) IN
  IF shoppingCart = Null \/ shoppingCart = Throw
  THEN crt
  ELSE LET q0 == shoppingCart.numActionFigures - 1
           quantity == IF q0 < 0 THEN 0 ELSE q0
           p0 == shoppingCart.totalPrice - character.unitPrice
           price == IF p0 < 0 THEN 0 ELSE p0
       IN IF quantity = 0
          THEN Null
          ELSE [shoppingCart EXCEPT
                  !.numActionFigures = quantity,
                  !.totalPrice = price]

decUpdateShoppingCart(crt, character) ==
  LET shoppingCart == getShoppingCart(crt) IN
  IF shoppingCart = Null \/ shoppingCart = Throw
  THEN crt
  ELSE LET q0 == shoppingCart.numActionFigures - 1
           quantity == IF q0 < 0 THEN 0 ELSE q0
           p0 == shoppingCart.totalPrice - character.unitPrice
           price == IF p0 < 0 THEN 0 ELSE p0
       IN [shoppingCart EXCEPT
             !.numActionFigures = quantity,
             !.totalPrice = price]

\* Variant: a missing character is not reported.
decreaseChosenQuantity_NoCheck(chs, crt, id) ==
  LET character == getCharacterFromCache(chs, id) IN
  IF character = Null
  THEN [chars |-> chs, cart |-> crt, ret |-> TRUE, threw |-> FALSE]
  ELSE [chars |-> decUpdateCharacter(chs, character),
        cart  |-> decUpdateShoppingCart(crt, character),
        ret   |-> ~cartReadThrows(crt),   \* no value when threw
        threw |-> cartReadThrows(crt)]

decreaseChosenQuantity(chs, crt, id) ==
  LET character == getCharacterFromCache(chs, id) IN
  IF character = Null
  THEN [chars |-> chs, cart |-> crt, ret |-> FALSE, threw |-> FALSE]
  ELSE [chars |-> decUpdateCharacter(chs, character),
        cart  |-> decUpdateShoppingCart(crt, character),
        ret   |-> ~cartReadThrows(crt),   \* no value when threw
        threw |-> cartReadThrows(crt)]

(***************************************************************************)
(* get-character.resolver.ts                                               *)
(***************************************************************************)
\* readFragment<CharacterFullDataFragment>({ fragment:
\* CharacterDataFragmentDoc, ... }): the fields of characterData only.
getCharacter(chs, id) == readFragment(chs, id)

(***************************************************************************)
(* apollo-resolvers.ts                                                     *)
(***************************************************************************)
\* The resolver map: for each type name, the fields it has a resolver for.
localResolvers ==
  [Mutations |-> {"increaseChosenQuantity", "decreaseChosenQuantity"},
   Character |-> {"chosenQuantity", "unitPrice"}]

\* Name of the root type of a mutation operation in the schema.
MutationTypeName == "Mutation"

\* The client runs a resolver for a @client field only when the map has
\* one under the type name of the field's parent.
hasResolver(typeName, field) ==
  /\ typeName \in DOMAIN localResolvers
  /\ field \in localResolvers[typeName]

\* Variant: the chosenQuantity resolver gives 1.
resolveCharacter_One(remote) ==
  [kind |-> "Character", id |-> remote.id, name |-> remote.name,
   species |-> remote.species,
   unitPrice |-> setUnitPrice(remote.name),
   chosenQuantity |-> chosenQuantityDefault + 1]

\* The Character resolvers applied to a record that came from the remote
\* API: unitPrice from setUnitPrice, chosenQuantity from () => 0.
resolveCharacter(remote) ==
  [kind |-> "Character", id |-> remote.id, name |-> remote.name,
   species |-> remote.species,
   unitPrice |-> setUnitPrice(remote.name),
   chosenQuantity |-> chosenQuantityDefault]

\* The record the remote API serves for a character.
Remote(id) == [id |-> id, name |-> NameOf(id), species |-> SpeciesOf(id)]

(***************************************************************************)
(* character-quantity.tsx, shopping-cart-btn.tsx                           *)
(***************************************************************************)
\* Variant: the decrease button is never disabled.
decreaseDisabled_Never(chosenQuantity) == FALSE

\* <IconButton disabled={props.chosenQuantity <= 0} onClick={onDecreaseQty}>
decreaseDisabled(chosenQuantity) == chosenQuantity <= 0

\* <IconButton color='primary' onClick={onIncreaseQty}>: no disabled prop.
increaseDisabled(chosenQuantity) == FALSE

\* What ShoppingCartBtn renders for the data of useGetShoppingCartQuery:
\* the empty box when !data || data.shoppingCart.numActionFigures <= 0, the
\* count and the total otherwise.  data is undefined or an object with the
\* field shoppingCart; with shoppingCart null the guard reads
\* numActionFigures of null and the render throws a TypeError.
ShoppingCartBtn(data) ==
  IF data = Undefined THEN "empty"
  ELSE IF data.shoppingCart = Null THEN "throws"
  ELSE IF data.shoppingCart.numActionFigures <= 0 THEN "empty"
  ELSE "count"

(***************************************************************************)
(* State machine                                                           *)
(***************************************************************************)
EmptyChars == [i \in {} |-> Null]

\* An invocation slot with no resolver call in progress.
Idle == [pc |-> "idle", op |-> "none", id |-> 0, character |-> Null,
         ret |-> FALSE, threw |-> FALSE]

\* val is the record a query resolver returned (Null for the other calls).
NoCall == [op |-> "none", id |-> 0, ret |-> FALSE, threw |-> FALSE, val |-> Null]

Store == [chars |-> chars, cart |-> cart]

\* The call sequence of the worked example: on the character with id 1.
Scenario == <<"increase", "increase", "decrease", "decrease", "decrease">>

\* The cache after construction and the initLocalCache() call of
\* apollo-client.ts: no character fetched yet, cart zeroed.
Init ==
  /\ chars = EmptyChars
  /\ cart = initLocalCache
  /\ last = NoCall
  /\ last2 = NoCall
  /\ pre = [chars |-> EmptyChars, cart |-> initLocalCache]
  /\ pre2 = [chars |-> EmptyChars, cart |-> initLocalCache]
  /\ scen = -1
  /\ act = [c \in Callers |-> Idle]
  /\ turn = 0
  /\ draining = FALSE

\* The alternative start tutorial.md describes: the cart written as null
\* (localCache.writeData({ data: { shoppingCart: null } })).
InitNullCart ==
  /\ chars = EmptyChars
  /\ cart = Null
  /\ last = NoCall
  /\ last2 = NoCall
  /\ pre = [chars |-> EmptyChars, cart |-> Null]
  /\ pre2 = [chars |-> EmptyChars, cart |-> Null]
  /\ scen = -1
  /\ act = [c \in Callers |-> Idle]
  /\ turn = 0
  /\ draining = FALSE

\* The cache as constructed, initLocalCache() not called: shoppingCart is
\* undefined.
InitUndefCart ==
  /\ chars = EmptyChars
  /\ cart = Undefined
  /\ last = NoCall
  /\ last2 = NoCall
  /\ pre = [chars |-> EmptyChars, cart |-> Undefined]
  /\ pre2 = [chars |-> EmptyChars, cart |-> Undefined]
  /\ scen = -1
  /\ act = [c \in Callers |-> Idle]
  /\ turn = 0
  /\ draining = FALSE

\* scen = k >= 0: all that happened so far is the fetch of character 1
\* followed by the first k calls of Scenario on it; -1 otherwise.
ScenNext(op, id) ==
  IF op = "fetch" /\ id = 1 /\ chars = EmptyChars /\ last = NoCall
  THEN 0
  ELSE IF /\ scen >= 0 /\ scen < Len(Scenario)
          /\ id = 1 /\ op = Scenario[scen + 1]
       THEN scen + 1
       ELSE -1

\* Bookkeeping: the last two calls and the stores they started from.
Record(op, id, ret, threw, val) ==
  /\ last' = [op |-> op, id |-> id, ret |-> ret, threw |-> threw, val |-> val]
  /\ pre' = Store
  /\ last2' = last
  /\ pre2' = pre
  /\ scen' = ScenNext(op, id)
  /\ UNCHANGED <<act, turn, draining>>

\* A character arrives from the remote API for the first time; the
\* Character field resolvers fill in its local fields.
FetchCharacter(id) ==
  /\ id \notin DOMAIN chars
  /\ chars' = [i \in DOMAIN chars \cup {id} |->
                 IF i = id THEN resolveCharacter(Remote(id)) ELSE chars[i]]
  /\ cart' = cart
  /\ Record("fetch", id, TRUE, FALSE, Null)

\* A stored character arrives from the remote API again: the Character
\* field resolvers run on the remote record and the result is written over
\* the stored fields.
RefetchCharacter(id) ==
  /\ id \in DOMAIN chars
  /\ chars' = [chars EXCEPT ![id] = resolveCharacter(Remote(id))]
  /\ cart' = cart
  /\ Record("refetch", id, TRUE, FALSE, Null)

\* The model stops increasing at its bounds.
WithinBounds(id) ==
  /\ id \in DOMAIN chars => chars[id].chosenQuantity < MaxQty
  /\ cart.kind = "ShoppingCart" =>
       /\ cart.numActionFigures < MaxFigures
       /\ cart.totalPrice + 10 <= MaxPrice

IncreaseChosenQuantity(id) ==
  /\ WithinBounds(id)
  /\ LET r == increaseChosenQuantity(chars, cart, id) IN
       /\ chars' = r.chars
       /\ cart' = r.cart
       /\ Record("increase", id, r.ret, r.threw, Null)

DecreaseChosenQuantity(id) ==
  LET r == decreaseChosenQuantity(chars, cart, id) IN
    /\ chars' = r.chars
    /\ cart' = r.cart
    /\ Record("decrease", id, r.ret, r.threw, Null)

GetCharacter(id) ==
  /\ chars' = chars
  /\ cart' = cart
  /\ Record("getCharacter", id, TRUE, FALSE, getCharacter(chars, id))

\* Click on the increase button of a rendered character: the
\* IncreaseChosenQuantity mutation goes to the resolver the map has for it.
ClickIncrease(id) ==
  /\ id \in DOMAIN chars
  /\ ~increaseDisabled(chars[id].chosenQuantity)
  /\ WithinBounds(id)
  /\ LET r == IF hasResolver(MutationTypeName, "increaseChosenQuantity")
              THEN increaseChosenQuantity(chars, cart, id)
              ELSE [chars |-> chars, cart |-> cart,
                    ret |-> FALSE, threw |-> FALSE]
     IN /\ chars' = r.chars
        /\ cart' = r.cart
        /\ Record("clickIncrease", id, r.ret, r.threw, Null)

\* Click on the decrease button, which is disabled at chosenQuantity <= 0.
ClickDecrease(id) ==
  /\ id \in DOMAIN chars
  /\ ~decreaseDisabled(chars[id].chosenQuantity)
  /\ LET r == IF hasResolver(MutationTypeName, "decreaseChosenQuantity")
              THEN decreaseChosenQuantity(chars, cart, id)
              ELSE [chars |-> chars, cart |-> cart,
                    ret |-> FALSE, threw |-> FALSE]
     IN /\ chars' = r.chars
        /\ cart' = r.cart
        /\ Record("clickDecrease", id, r.ret, r.threw, Null)

Next ==
  \/ \E id \in CharIds : FetchCharacter(id)
  \/ \E id \in ArgIds : IncreaseChosenQuantity(id)
  \/ \E id \in ArgIds : DecreaseChosenQuantity(id)
  \/ \E id \in ArgIds : GetCharacter(id)
  \/ \E id \in CharIds : ClickIncrease(id)
  \/ \E id \in CharIds : ClickDecrease(id)

NextRefetch ==
  \/ \E id \in RefetchIds : FetchCharacter(id)
  \/ \E id \in RefetchIds : RefetchCharacter(id)
  \/ \E id \in RefetchIds : IncreaseChosenQuantity(id)
  \/ \E id \in RefetchIds : DecreaseChosenQuantity(id)

Spec == Init /\ [][Next]_vars

SpecNullCart == InitNullCart /\ [][Next]_vars

\* Any of the three ways the cart can start.
SpecAnyCart == (Init \/ InitNullCart \/ InitUndefCart) /\ [][Next]_vars

\* The characters may be fetched from the remote API more than once.
SpecRefetch == Init /\ [][NextRefetch]_vars

\* decreaseChosenQuantity called only where the view's decrease button is
\* enabled: on a rendered character with chosenQuantity > 0.
EnabledDecrease(id) ==
  /\ id \in DOMAIN chars
  /\ ~decreaseDisabled(chars[id].chosenQuantity)
  /\ DecreaseChosenQuantity(id)

\* increaseChosenQuantity called on a rendered character.
EnabledIncrease(id) ==
  /\ id \in DOMAIN chars
  /\ ~increaseDisabled(chars[id].chosenQuantity)
  /\ IncreaseChosenQuantity(id)

NextView ==
  \/ \E id \in CharIds : FetchCharacter(id)
  \/ \E id \in CharIds : EnabledIncrease(id)
  \/ \E id \in CharIds : EnabledDecrease(id)

\* The resolver calls the buttons of the view allow.
SpecView == Init /\ [][NextView]_vars

\* From here on the callers only decrease.
StopIncreasing ==
  /\ ~draining
  /\ draining' = TRUE
  /\ UNCHANGED <<chars, cart, last, pre, last2, pre2, scen, act, turn>>

NextDrain ==
  \/ \E id \in DrainIds : ~draining /\ FetchCharacter(id)
  \/ \E id \in DrainIds : ~draining /\ IncreaseChosenQuantity(id)
  \/ \E id \in DrainIds : DecreaseChosenQuantity(id)
  \/ StopIncreasing

\* Any calls at first, then decreaseChosenQuantity again and again on each
\* character.
SpecDrain ==
  /\ Init
  /\ [][NextDrain]_vars
  /\ \A id \in DrainIds : WF_vars(DecreaseChosenQuantity(id))


(***************************************************************************)
(* The resolvers statement by statement.  turn is the invocation that has  *)
(* the JavaScript thread (0: none); an invocation gives it up only where   *)
(* it awaits or returns.                                                   *)
(***************************************************************************)
\* Variant: the cart is read with `await client.query(...)`, so the resolver
\* awaits between its character write and its cart update.
yields_AsyncCartRead(op, pc) == pc = "updateShoppingCart"

\* Whether the resolver awaits before the statement at pc: never, every
\* cache call of both resolvers is synchronous.
yields(op, pc) == FALSE

History == <<last, pre, last2, pre2, scen>>

\* The client calls the resolver: variables.input.id = id.
Start(c, op, id) ==
  /\ turn = 0
  /\ act[c].pc = "idle"
  /\ op = "increase" => WithinBounds(id)
  /\ act' = [act EXCEPT ![c] =
               [Idle EXCEPT !.pc = "readCharacter", !.op = op, !.id = id]]
  /\ turn' = c
  /\ UNCHANGED <<chars, cart, History, draining>>

\* const character = getCharacterFromCache(...); if (!character) return false
StepReadCharacter(c) ==
  /\ turn = c
  /\ act[c].pc = "readCharacter"
  /\ LET character == getCharacterFromCache(chars, act[c].id) IN
       act' = [act EXCEPT ![c] =
                 IF character = Null
                 THEN [@ EXCEPT !.pc = "return", !.ret = FALSE]
                 ELSE [@ EXCEPT !.pc = "updateCharacter",
                                !.character = character]]
  /\ UNCHANGED <<chars, cart, turn, History, draining>>

\* Variant: the two update calls are swapped, the cart is updated where the
\* character should be.
StepUpdateCharacter_CartFirst(c) ==
  /\ turn = c
  /\ act[c].pc = "updateCharacter"
  /\ cart' = IF act[c].op = "increase"
             THEN incUpdateShoppingCart(cart, act[c].character)
             ELSE decUpdateShoppingCart(cart, act[c].character)
  /\ act' = [act EXCEPT ![c].pc = "updateShoppingCart"]
  /\ turn' = IF yields(act[c].op, "updateShoppingCart") THEN 0 ELSE c
  /\ UNCHANGED <<chars, History, draining>>

\* updateCharacter(character, context.cache, context.getCacheKey)
StepUpdateCharacter(c) ==
  /\ turn = c
  /\ act[c].pc = "updateCharacter"
  /\ chars' = IF act[c].op = "increase"
              THEN incUpdateCharacter(chars, act[c].character)
              ELSE decUpdateCharacter(chars, act[c].character)
  /\ act' = [act EXCEPT ![c].pc = "updateShoppingCart"]
  /\ turn' = IF yields(act[c].op, "updateShoppingCart") THEN 0 ELSE c
  /\ UNCHANGED <<cart, History, draining>>

\* updateShoppingCart(character, context.cache)
StepUpdateShoppingCart(c) ==
  /\ turn = c \/ (turn = 0 /\ yields(act[c].op, "updateShoppingCart"))
  /\ act[c].pc = "updateShoppingCart"
  /\ cart' = IF act[c].op = "increase"
             THEN incUpdateShoppingCart(cart, act[c].character)
             ELSE decUpdateShoppingCart(cart, act[c].character)
  /\ act' = [act EXCEPT ![c] =
               [@ EXCEPT !.pc = "return",
                         !.ret = ~cartReadThrows(cart),
                         !.threw = cartReadThrows(cart)]]
  /\ turn' = c
  /\ UNCHANGED <<chars, History, draining>>

\* return true / return false / the exception leaves the resolver
StepReturn(c) ==
  /\ turn = c
  /\ act[c].pc = "return"
  /\ act' = [act EXCEPT ![c] = Idle]
  /\ turn' = 0
  /\ UNCHANGED <<chars, cart, History, draining>>

NextSteps ==
  \/ \E id \in StepIds : turn = 0 /\ FetchCharacter(id)
  \/ \E c \in Callers, op \in {"increase", "decrease"}, id \in StepIds \cup {0} :
       Start(c, op, id)
  \/ \E c \in Callers : StepReadCharacter(c)
  \/ \E c \in Callers : StepUpdateCharacter(c)
  \/ \E c \in Callers : StepUpdateShoppingCart(c)
  \/ \E c \in Callers : StepReturn(c)

\* The resolvers run statement by statement.
SpecSteps == Init /\ [][NextSteps]_vars

(***************************************************************************)
(* Properties                                                              *)
(***************************************************************************)
RECURSIVE SumOver(_, _)
SumOver(S, f) ==
  IF S = {} THEN 0
  ELSE LET x == CHOOSE y \in S : TRUE IN f[x] + SumOver(S \ {x}, f)

SumPrice(chs) ==
  SumOver(DOMAIN chs, [i \in DOMAIN chs |-> chs[i].unitPrice * chs[i].chosenQuantity])

SumQuantity(chs) ==
  SumOver(DOMAIN chs, [i \in DOMAIN chs |-> chs[i].chosenQuantity])

Max(a, b) == IF a > b THEN a ELSE b

IsMutation(c) == c.op \in {"increase", "decrease"}

\* The last call was a mutation on a character that was in the store.
LastOnExisting == IsMutation(last) /\ last.id \in DOMAIN pre.chars

\* C1: the cart's totalPrice is the sum of unitPrice * chosenQuantity over
\* all characters and its numActionFigures is the sum of chosenQuantity.
C1_CartMatchesSums ==
  /\ cart.totalPrice = SumPrice(chars)
  /\ cart.numActionFigures = SumQuantity(chars)

\* C2: every stored character has chosenQuantity >= 0.
C2_QuantityNonNegative ==
  \A id \in DOMAIN chars : chars[id].chosenQuantity >= 0

C2_Witness ==
  /\ last.op = "decrease" /\ last.ret
  /\ pre.chars[last.id].chosenQuantity = 0
  /\ chars[last.id].chosenQuantity = 0

\* C3: the cart's totalPrice and numActionFigures are never negative.
C3_CartNonNegative ==
  cart.totalPrice >= 0 /\ cart.numActionFigures >= 0

C3_Witness ==
  /\ last.op = "decrease" /\ last.ret
  /\ pre.cart.totalPrice < pre.chars[last.id].unitPrice
  /\ pre.cart.numActionFigures = 0
  /\ cart.totalPrice = 0 /\ cart.numActionFigures = 0

\* C4: an increase on an existing character immediately followed by a
\* decrease on the same character restores the character's chosenQuantity
\* and the cart's totalPrice and numActionFigures.
C4_RoundTrip ==
  (/\ last2.op = "increase" /\ last.op = "decrease"
   /\ last2.id = last.id
   /\ last.id \in DOMAIN pre2.chars)
  => /\ chars[last.id].chosenQuantity = pre2.chars[last.id].chosenQuantity
     /\ cart.totalPrice = pre2.cart.totalPrice
     /\ cart.numActionFigures = pre2.cart.numActionFigures

C4_Witness ==
  /\ last2.op = "increase" /\ last.op = "decrease"
  /\ last2.id = last.id /\ last2.ret /\ last.ret
  /\ pre2.cart.totalPrice > 0
  /\ cart = pre2.cart /\ chars = pre2.chars

\* C5: a mutation called with an identifier that has no character record
\* returns false and changes neither a character record nor the cart.
C5_MissingCharacter ==
  (IsMutation(last) /\ last.id \notin DOMAIN pre.chars)
  => /\ last.ret = FALSE
     /\ chars = pre.chars
     /\ cart = pre.cart

C5_Witness ==
  /\ last.op = "decrease" /\ last.id \notin DOMAIN pre.chars
  /\ last2.op = "increase" /\ last2.id \notin DOMAIN pre2.chars
  /\ cart.numActionFigures > 0
  /\ last.ret = FALSE /\ last2.ret = FALSE

\* C6: with the character present and the cart null, a mutation returns
\* false.
C6_NullCartReturnsFalse ==
  (LastOnExisting /\ pre.cart = Null) => last.ret = FALSE

\* C7: with the character present and the cart null, a mutation writes the
\* character's new chosenQuantity and writes no cart.
C7_NullCartKeepsCharacterWrite ==
  (LastOnExisting /\ pre.cart = Null)
  => /\ cart = Null
     /\ chars[last.id].chosenQuantity =
          IF last.op = "increase"
          THEN pre.chars[last.id].chosenQuantity + 1
          ELSE Max(pre.chars[last.id].chosenQuantity - 1, 0)

C7_Witness ==
  /\ LastOnExisting /\ pre.cart = Null /\ cart = Null
  /\ last.op = "increase"
  /\ chars[last.id].chosenQuantity = pre.chars[last.id].chosenQuantity + 1
  /\ last2.op = "decrease" /\ last2.id \in DOMAIN pre2.chars
  /\ pre.chars[last2.id].chosenQuantity < pre2.chars[last2.id].chosenQuantity

\* C8: with character and cart present, increaseChosenQuantity returns true,
\* adds 1 to the character's chosenQuantity, 1 to numActionFigures and the
\* character's unitPrice to totalPrice.
C8_IncreaseEffect ==
  (last.op = "increase" /\ last.id \in DOMAIN pre.chars /\ pre.cart # Null)
  => /\ last.ret = TRUE
     /\ chars[last.id].chosenQuantity = pre.chars[last.id].chosenQuantity + 1
     /\ cart.numActionFigures = pre.cart.numActionFigures + 1
     /\ cart.totalPrice = pre.cart.totalPrice + pre.chars[last.id].unitPrice

C8_Witness ==
  /\ last.op = "increase" /\ last.id \in DOMAIN pre.chars /\ last.ret
  /\ pre.chars[last.id].chosenQuantity > 0
  /\ cart.totalPrice = pre.cart.totalPrice + 5

\* C9: with character and cart present, decreaseChosenQuantity returns true
\* and sets chosenQuantity, numActionFigures and totalPrice to the old value
\* less 1, 1 and unitPrice, each clamped at 0 on its own.
C9_DecreaseEffect ==
  (last.op = "decrease" /\ last.id \in DOMAIN pre.chars /\ pre.cart # Null)
  => /\ last.ret = TRUE
     /\ chars[last.id].chosenQuantity =
          Max(pre.chars[last.id].chosenQuantity - 1, 0)
     /\ cart.numActionFigures = Max(pre.cart.numActionFigures - 1, 0)
     /\ cart.totalPrice =
          Max(pre.cart.totalPrice - pre.chars[last.id].unitPrice, 0)

\* The price clamp acts while the count clamp does not.
C9_Witness ==
  /\ last.op = "decrease" /\ last.id \in DOMAIN pre.chars /\ last.ret
  /\ pre.cart.totalPrice < pre.chars[last.id].unitPrice
  /\ pre.cart.numActionFigures >= 1
  /\ cart.totalPrice = 0
  /\ cart.numActionFigures = pre.cart.numActionFigures - 1

\* C10: decreaseChosenQuantity on a character whose chosenQuantity is 0
\* leaves it at 0 and leaves the cart's two totals >= 0.
C10_DecreaseAtZero ==
  (/\ last.op = "decrease" /\ last.id \in DOMAIN pre.chars
   /\ pre.chars[last.id].chosenQuantity = 0)
  => /\ chars[last.id].chosenQuantity = 0
     /\ cart.totalPrice >= 0
     /\ cart.numActionFigures >= 0

C10_Witness ==
  /\ last.op = "decrease" /\ last.id \in DOMAIN pre.chars
  /\ pre.chars[last.id].chosenQuantity = 0
  /\ chars[last.id].chosenQuantity = 0
  /\ pre.cart.numActionFigures > 0
  /\ pre.cart.totalPrice > 0
  /\ cart.totalPrice = 0

\* The store holds the character with id 1 and nothing else.
OnlyRick == DOMAIN chars = {1} /\ chars[1].name = "Rick Sanchez"

\* C11: from cart {0, 0} and the single character "Rick Sanchez" at
\* chosenQuantity 0, the calls increase, increase, decrease, decrease,
\* decrease give (1, {10, 1}), (2, {20, 2}), (1, {10, 1}), (0, {0, 0}),
\* (0, {0, 0}).
C11_Scenario ==
  scen >= 0 =>
    /\ OnlyRick
    /\ LET q == chars[1].chosenQuantity
           tp == cart.totalPrice
           n == cart.numActionFigures
       IN /\ scen = 0 => q = 0 /\ tp = 0 /\ n = 0
          /\ scen = 1 => q = 1 /\ tp = 10 /\ n = 1
          /\ scen = 2 => q = 2 /\ tp = 20 /\ n = 2
          /\ scen = 3 => q = 1 /\ tp = 10 /\ n = 1
          /\ scen = 4 => q = 0 /\ tp = 0 /\ n = 0
          /\ scen = 5 => q = 0 /\ tp = 0 /\ n = 0

C11_Witness ==
  /\ scen = 5 /\ OnlyRick
  /\ last.op = "decrease" /\ last2.op = "decrease"
  /\ chars[1].chosenQuantity = 0
  /\ cart.totalPrice = 0 /\ cart.numActionFigures = 0

\* C12: a character's unitPrice is 10 when its name is "Rick Sanchez" or
\* "Morty Smith" and 5 otherwise, whatever the store holds, and resolving it
\* changes neither the cart nor another character.
C12_UnitPriceByName ==
  /\ \A id \in DOMAIN chars :
       chars[id].unitPrice =
         IF chars[id].name \in {"Rick Sanchez", "Morty Smith"} THEN 10 ELSE 5
  /\ last.op = "fetch" =>
       /\ cart = pre.cart
       /\ \A i \in DOMAIN pre.chars : chars[i] = pre.chars[i]

C12_Witness ==
  /\ last.op = "fetch" /\ last.id = 2
  /\ DOMAIN chars = CharIds
  /\ cart.totalPrice > 0
  /\ chars[1].unitPrice = 10 /\ chars[2].unitPrice = 10
  /\ chars[3].unitPrice = 5

\* C13: once initLocalCache has run the cart record is present in every
\* state and keeps its id.
C13_CartPresent ==
  /\ cart # Null
  /\ cart # Undefined
  /\ cart.kind = "ShoppingCart"
  /\ cart.id = initLocalCache.id

C13_Witness ==
  /\ last.op = "getCharacter" /\ last2.op = "decrease" /\ last2.ret
  /\ pre2.cart.numActionFigures = 1
  /\ cart.kind = "ShoppingCart" /\ cart.numActionFigures = 0

\* C14: a stored chosenQuantity changes only through increaseChosenQuantity
\* or decreaseChosenQuantity called on that character.
C14_QuantityOnlyByMutations ==
  \A id \in DOMAIN pre.chars :
    chars[id].chosenQuantity # pre.chars[id].chosenQuantity
    => IsMutation(last) /\ last.id = id

\* C15: a character read for the first time gets chosenQuantity 0; the
\* read succeeds and leaves the cart and the stored characters as they were.
C15_DefaultQuantity ==
  last.op = "fetch" =>
    /\ last.id \notin DOMAIN pre.chars
    /\ chars[last.id].chosenQuantity = 0
    /\ last.threw = FALSE
    /\ cart = pre.cart
    /\ \A i \in DOMAIN pre.chars : chars[i] = pre.chars[i]

C15_Witness ==
  /\ last.op = "fetch" /\ last.id = 3
  /\ chars[3].chosenQuantity = 0
  /\ 1 \in DOMAIN pre.chars /\ chars[1].chosenQuantity = MaxQty

\* C16: getCharacter(id) returns the stored character record, with its
\* unitPrice and chosenQuantity as they are in the store, or null when no
\* character with that id is stored, and changes neither a character nor
\* the cart.
C16_GetCharacter ==
  last.op = "getCharacter" =>
    /\ chars = pre.chars
    /\ cart = pre.cart
    /\ last.val = IF last.id \in DOMAIN chars THEN chars[last.id] ELSE Null

\* C17: while one mutation has written its character and not yet updated
\* the cart, no other mutation starts, reads or writes.
C17_RunToCompletion ==
  [][\A c \in Callers :
       act[c].pc = "updateShoppingCart"
       => /\ \A d \in Callers \ {c} : act'[d] = act[d]
          /\ chars' = chars]_vars

C17_Witness ==
  \E c \in Callers :
    /\ act[c].pc = "updateShoppingCart" /\ act[c].op = "decrease"
    /\ chars[act[c].id].chosenQuantity < act[c].character.chosenQuantity
    /\ cart.numActionFigures = 2
    /\ \A d \in Callers \ {c} : act[d] = Idle

\* C19: no call of increaseChosenQuantity or decreaseChosenQuantity raises
\* an exception, whatever state the cart is in.
C19_NeverThrows ==
  IsMutation(last) => last.threw = FALSE

\* C19 (amended): a call raises an exception exactly when the character
\* exists and the cart is undefined; the character write then stays and
\* every other call ends by returning a boolean.
C19_ThrowsOnlyOnUndefinedCart ==
  IsMutation(last) =>
    /\ last.threw <=> (last.id \in DOMAIN pre.chars /\ pre.cart = Undefined)
    /\ last.threw =>
         /\ cart = Undefined
         /\ chars[last.id].chosenQuantity =
              IF last.op = "increase"
              THEN pre.chars[last.id].chosenQuantity + 1
              ELSE Max(pre.chars[last.id].chosenQuantity - 1, 0)

C19_Witness ==
  /\ last.op = "increase" /\ last.id \notin DOMAIN pre.chars
  /\ last.threw = FALSE /\ last.ret = FALSE
  /\ last2.op = "decrease" /\ last2.threw
  /\ pre2.chars[last2.id].chosenQuantity = 1
  /\ chars[last2.id].chosenQuantity = 0
  /\ cart = Undefined

\* C20: a click on a character's increase button, or on its enabled
\* decrease button, reaches the matching resolver: the character's
\* chosenQuantity and the cart totals change by one unit.
C20_ClickReachesResolver ==
  /\ last.op = "clickIncrease" =>
       /\ chars[last.id].chosenQuantity =
            pre.chars[last.id].chosenQuantity + 1
       /\ cart.numActionFigures = pre.cart.numActionFigures + 1
       /\ cart.totalPrice = pre.cart.totalPrice + pre.chars[last.id].unitPrice
  /\ last.op = "clickDecrease" =>
       /\ chars[last.id].chosenQuantity =
            pre.chars[last.id].chosenQuantity - 1
       /\ cart.numActionFigures = Max(pre.cart.numActionFigures - 1, 0)
       /\ cart.totalPrice =
            Max(pre.cart.totalPrice - pre.chars[last.id].unitPrice, 0)

\* C21: increaseChosenQuantity on a stored character at any chosenQuantity
\* n >= 0 returns true and leaves the character at n + 1; there is no value
\* at which it saturates or fails.
C21_IncreaseUnbounded ==
  \A n \in 0..(MaxQty - 1) :
    (/\ last.op = "increase" /\ last.id \in DOMAIN pre.chars
     /\ pre.chars[last.id].chosenQuantity = n)
    => /\ last.ret /\ ~last.threw
       /\ chars[last.id].chosenQuantity = n + 1

C21_Witness ==
  /\ last.op = "increase" /\ last.id \in DOMAIN pre.chars /\ last.ret
  /\ pre.chars[last.id].chosenQuantity = MaxQty - 1
  /\ chars[last.id].chosenQuantity = MaxQty

\* The statements of a resolver in the order they may follow each other.
StepOrder ==
  {<<"idle", "readCharacter">>, <<"readCharacter", "updateCharacter">>,
   <<"readCharacter", "return">>, <<"updateCharacter", "updateShoppingCart">>,
   <<"updateShoppingCart", "return">>, <<"return", "idle">>}

\* C22: a mutation reads the character, then writes the character, then
\* reads and writes the cart; the character is written while the cart is as
\* it was, and the cart update uses the unitPrice of the record read first.
C22_StepOrder ==
  [][\A c \in Callers :
       /\ act'[c].pc # act[c].pc => <<act[c].pc, act'[c].pc>> \in StepOrder
       /\ act[c].pc = "readCharacter" /\ act'[c].pc # act[c].pc
          => /\ chars' = chars /\ cart' = cart
             /\ act'[c].character = readFragment(chars, act[c].id)
       /\ act[c].pc = "updateCharacter" /\ act'[c].pc # act[c].pc
          => /\ cart' = cart
             /\ chars'[act[c].id].chosenQuantity =
                  IF act[c].op = "increase"
                  THEN act[c].character.chosenQuantity + 1
                  ELSE Max(act[c].character.chosenQuantity - 1, 0)
       /\ act[c].pc = "updateShoppingCart" /\ act'[c].pc # act[c].pc
          => /\ chars' = chars
             /\ cart'.totalPrice =
                  IF act[c].op = "increase"
                  THEN cart.totalPrice + act[c].character.unitPrice
                  ELSE Max(cart.totalPrice - act[c].character.unitPrice, 0)
             /\ cart'.numActionFigures =
                  IF act[c].op = "increase"
                  THEN cart.numActionFigures + 1
                  ELSE Max(cart.numActionFigures - 1, 0)]_vars

\* A decrease has done its four steps: character 2 -> 1, cart {20, 2} ->
\* {10, 1}.
C22_Witness ==
  \E c \in Callers :
    /\ act[c].pc = "return" /\ act[c].op = "decrease"
    /\ act[c].character # Null
    /\ act[c].character.unitPrice = 10
    /\ act[c].character.chosenQuantity = 2
    /\ chars[act[c].id].chosenQuantity = 1
    /\ cart.totalPrice = 10 /\ cart.numActionFigures = 1

\* C23: the decrease button of a character is enabled only when its
\* chosenQuantity > 0, so no click on it comes from a character at 0; the
\* increase button is always enabled.
C23_DecreaseButton ==
  /\ \A id \in DOMAIN chars :
       /\ ~decreaseDisabled(chars[id].chosenQuantity)
            <=> chars[id].chosenQuantity > 0
       /\ ~increaseDisabled(chars[id].chosenQuantity)
  /\ last.op = "clickDecrease" => pre.chars[last.id].chosenQuantity > 0

C23_Witness ==
  /\ last.op = "clickDecrease"
  /\ pre.chars[last.id].chosenQuantity > 0
  /\ \E id \in DOMAIN chars : chars[id].chosenQuantity = 0
  /\ last2.op = "clickIncrease"
  /\ pre2.chars[last2.id].chosenQuantity = 0

\* C24: when decreaseChosenQuantity is called only on characters with
\* chosenQuantity > 0, the cart's totalPrice and numActionFigures equal the
\* sums over the characters in every state and no clamp of the decrease
\* takes effect.
C24_ViewKeepsSums ==
  /\ cart.totalPrice = SumPrice(chars)
  /\ cart.numActionFigures = SumQuantity(chars)
  /\ last.op = "decrease" =>
       /\ pre.chars[last.id].chosenQuantity - 1 >= 0
       /\ pre.cart.numActionFigures - 1 >= 0
       /\ pre.cart.totalPrice - pre.chars[last.id].unitPrice >= 0

\* A decrease took a character to 0 while another one keeps the cart above
\* zero.
C24_Witness ==
  /\ last.op = "decrease"
  /\ pre.chars[last.id].chosenQuantity = 1
  /\ chars[last.id].chosenQuantity = 0
  /\ cart.numActionFigures = MaxQty
  /\ cart.totalPrice = 5 * MaxQty

\* C25: decreaseChosenQuantity on a character whose chosenQuantity is 0
\* leaves the cart's totalPrice and numActionFigures as they were.
C25_DecreaseAtZeroKeepsCart ==
  (/\ last.op = "decrease" /\ last.id \in DOMAIN pre.chars
   /\ pre.chars[last.id].chosenQuantity = 0)
  => /\ cart.totalPrice = pre.cart.totalPrice
     /\ cart.numActionFigures = pre.cart.numActionFigures

\* C26: a mutation on a character leaves every other character as it was,
\* leaves every field of the character but chosenQuantity as it was, and
\* leaves the identity of the cart as it was.
C26_Frame ==
  IsMutation(last) =>
    /\ DOMAIN chars = DOMAIN pre.chars
    /\ \A i \in DOMAIN chars \ {last.id} : chars[i] = pre.chars[i]
    /\ last.id \in DOMAIN chars =>
         /\ DOMAIN chars[last.id] = DOMAIN pre.chars[last.id]
         /\ \A f \in DOMAIN chars[last.id] \ {"chosenQuantity"} :
              chars[last.id][f] = pre.chars[last.id][f]
    /\ cart.kind = pre.cart.kind
    /\ cart.id = pre.cart.id

C26_Witness ==
  /\ last.op = "decrease" /\ last.id \in DOMAIN pre.chars
  /\ chars[last.id].chosenQuantity # pre.chars[last.id].chosenQuantity
  /\ cart.totalPrice # pre.cart.totalPrice
  /\ chars[last.id].name = "Morty Smith"
  /\ \E i \in DOMAIN chars \ {last.id} : chars[i].chosenQuantity > 0
  /\ last2.op = "increase" /\ last2.id \in DOMAIN pre2.chars
  /\ last2.id # last.id

\* C27: in every state 5 * numActionFigures <= totalPrice <=
\* 10 * numActionFigures, so numActionFigures = 0 exactly when
\* totalPrice = 0.
C27_PriceBounds ==
  /\ 5 * cart.numActionFigures <= cart.totalPrice
  /\ cart.totalPrice <= 10 * cart.numActionFigures
  /\ cart.numActionFigures = 0 <=> cart.totalPrice = 0

\* C28: the shopping-cart button shows the count and the total exactly when
\* numActionFigures > 0, and that is exactly when some character has
\* chosenQuantity > 0.
C28_CartButton ==
  /\ ShoppingCartBtn([shoppingCart |-> cart]) = "count"
       <=> cart.numActionFigures > 0
  /\ cart.numActionFigures > 0
       <=> \E i \in DOMAIN chars : chars[i].chosenQuantity > 0

\* The store after one resolver call on it.
Apply(op, id, st) ==
  LET r == IF op = "increase"
           THEN increaseChosenQuantity(st.chars, st.cart, id)
           ELSE decreaseChosenQuantity(st.chars, st.cart, id)
  IN [chars |-> r.chars, cart |-> r.cart]

\* C29: two mutation calls on different characters give the same quantities
\* and cart totals in either order.
C29_Commute ==
  \A a, b \in DOMAIN chars :
    a # b =>
      \A op1, op2 \in {"increase", "decrease"} :
        Apply(op2, b, Apply(op1, a, Store)) =
          Apply(op1, a, Apply(op2, b, Store))

\* Every chosenQuantity is 0 and the cart is {0, 0}.
AllZero ==
  /\ \A i \in DOMAIN chars : chars[i].chosenQuantity = 0
  /\ cart.totalPrice = 0
  /\ cart.numActionFigures = 0

\* C30: once the callers only decrease, and keep decreasing each
\* character, the store reaches the state with every chosenQuantity 0 and
\* the cart {0, 0} and stays there; a decrease in that state leaves the
\* store unchanged.
C30_DrainsToZero ==
  /\ [](draining => <>[]AllZero)
  /\ [][(AllZero /\ last'.op = "decrease")
          => (chars' = chars /\ cart' = cart)]_vars

\* Both characters were chosen, the store has drained, and one more
\* decrease has left it as it was.
C30_Witness ==
  /\ draining /\ AllZero /\ DOMAIN chars = DrainIds
  /\ last.op = "decrease" /\ last.id \in DOMAIN chars /\ pre = Store
  /\ last2.op = "decrease" /\ last2.id \in DOMAIN chars
  /\ pre2.cart.numActionFigures > 0

====
